---- MODULE Spec2Model ----
(***************************************************************************)
(* Timetable pipeline of py.hsbi-timetable_2.0.                            *)
(*                                                                         *)
(* Two processes are modelled, each with its own specification:            *)
(*   SpecEvents : process_data (the Event Reconstructor) iterating the     *)
(*                rows of a frame and calling openai_parser, the           *)
(*                text-structuring oracle client, for multi-event rows;    *)
(*   SpecParse  : PdfParser.parse_pdf, the grid normalizer and cell        *)
(*                cleaner, step by step on one raw table.                  *)
(* The variables of the process a specification does not run keep their    *)
(* initial values.                                                         *)
(***************************************************************************)
EXTENDS Integers, Sequences, FiniteSets, TLC

VARIABLES
    \* ---- process_data / openai_parser (src/src/libs/parser.py) ----
    pc,                \* position of process_data: "iter", "request", "map", "done"
    df,                \* the frame handed to process_data (a sequence of rows)
    idx,               \* 1-based position of df.iterrows()
    details_string,    \* the payload joined for the current multi-event row
    attempt,           \* loop variable of openai_parser (1..max_retries)
    requests,          \* oracle requests issued for the current slot
    responses,         \* kinds of the oracle's answers for the current slot
    slept,             \* backoff waits (seconds) of the current slot
    parsed_events,     \* list returned by openai_parser for the current slot
    processed_events,  \* the list process_data accumulates
    \* ---- PdfParser.parse_pdf (src/src/libs/parser.py) ----
    stage,             \* position of parse_pdf
    raw_tables,        \* what extract_tables returned for the document
    frame,             \* the DataFrame df of parse_pdf (a sequence of rows)
    columns,           \* the column labels of df
    year,              \* what get_year returned (-1 before the call, 0 for None)
    \* ---- main_flow (src/main.py) ----
    mpc,               \* position of main_flow
    run,               \* number of the run of main_flow
    store,             \* <base>/<key>/<version>: "none", "empty" or "pdf"
    existing_versions, \* the dict get_existing_versions returned, as updated
    temp,              \* number of PDFs left to handle in <base>/temp/<key>
    key_i,             \* position of the loop over the timetable keys
    moved,             \* (key, version) pairs moved into the store in this run
    skipped,           \* (key, version) pairs skipped as seen before this run
    left_in_temp,      \* (key, version) of the processed files still in temp
    parsed,            \* (key, version, outcome) of the parse calls of this run
    cause,             \* why the run was aborted, "" if it was not
    calendar_updated,  \* update_google_calendar was called in this run
    \* ---- create_all_events / delete_all_events ----
    cpc,               \* position of the calendar update
    dry_run,           \* GoogleCalendarAPI.dry_run
    local_events,      \* the events to create: "ok" or "unpreparable"
    remote_events,     \* ids of the events the calendar holds before the update
    event_i,           \* position of the loop over the events
    attempted,         \* positions of the events create_event/delete_event got
    created_events,    \* what create_all_events accumulates
    remote_calls       \* the calls issued to the calendar service, in order

evVars == <<pc, df, idx, details_string, attempt, requests, responses, slept,
            parsed_events, processed_events>>

ppVars == <<stage, raw_tables, frame, columns, year>>

mfVars == <<mpc, run, store, existing_versions, temp, key_i, moved, skipped,
           left_in_temp,
            parsed, cause, calendar_updated>>

calVars == <<cpc, dry_run, local_events, remote_events, event_i, attempted,
             created_events, remote_calls>>

vars == <<pc, df, idx, details_string, attempt, requests, responses, slept,
          parsed_events, processed_events, stage, raw_tables, frame, columns, year,
          mpc, run, store, existing_versions, temp, key_i, moved, skipped,
          left_in_temp,
          parsed, cause, calendar_updated,
          cpc, dry_run, local_events, remote_events, event_i, attempted,
          created_events, remote_calls>>

(***************************************************************************)
(* Bounds of the model.                                                    *)
(***************************************************************************)
MaxDfRows == 2      \* rows of the frame handed to process_data
MaxLines == 5       \* lines of one cell
MaxRecords == 2     \* records in one oracle answer
MaxRows == 3        \* data rows of a raw table
MaxCols == 3        \* time-slot columns of a raw table
MaxCells == 4       \* time-slot cells (rows times columns) of a raw table
MaxVersions == 2    \* version identifiers of one timetable
MaxFiles == 2       \* PDFs downloaded for one timetable in one run
MaxRuns == 2        \* runs of main_flow
MaxEvents == 3      \* local events handed to create_all_events
MaxRemote == 2      \* events the calendar holds before the update
MaxPieces == 3      \* pieces a time-slot label is put together from

(***************************************************************************)
(* Program constants.                                                      *)
(***************************************************************************)
max_retries == 3          \* openai_parser
single_event_lines == 4   \* check_multievent: len(x) > 4
start_year == 2024        \* PdfParser.__init__: default start_year
end_year == 2025          \* PdfParser.__init__: default end_year

\* the values of the variables of a process that a specification does not run
EventsIdle ==
    /\ pc = "idle"
    /\ df = <<>>
    /\ idx = 0
    /\ details_string = <<>>
    /\ attempt = 0
    /\ requests = 0
    /\ responses = <<>>
    /\ slept = <<>>
    /\ parsed_events = <<>>
    /\ processed_events = <<>>

ParseIdle ==
    /\ stage = "idle"
    /\ raw_tables = <<>>
    /\ frame = <<>>
    /\ columns = <<>>
    /\ year = -1

MainIdle ==
    /\ mpc = "idle"
    /\ run = 0
    /\ store = <<>>
    /\ existing_versions = <<>>
    /\ temp = <<>>
    /\ key_i = 0
    /\ moved = {}
    /\ skipped = {}
    /\ left_in_temp = {}
    /\ parsed = {}
    /\ cause = ""
    /\ calendar_updated = FALSE

CalendarIdle ==
    /\ cpc = "idle"
    /\ dry_run = FALSE
    /\ local_events = <<>>
    /\ remote_events = <<>>
    /\ event_i = 0
    /\ attempted = {}
    /\ created_events = <<>>
    /\ remote_calls = <<>>

\* 2**attempt, the backoff of openai_parser
Pow2Linear(n) == 2 * n
RECURSIVE Pow2(_)
Pow2(n) == IF n = 0 THEN 1 ELSE 2 * Pow2(n - 1)

(***************************************************************************)
(* Cells.  A cell that reached process_data is a list of lines; the lines  *)
(* of one cell are pairwise different so that a positional mapping can be  *)
(* told from any other.                                                    *)
(***************************************************************************)
LineText(i) ==
    CASE i = 1 -> "Algorithms"
      [] i = 2 -> "Dr. X"
      [] i = 3 -> "A101"
      [] i = 4 -> "Lecture"
      [] i = 5 -> "Physics"
      [] OTHER -> ToString(i)

CellOfLen(n) == [i \in 1..n |-> LineText(i)]

\* A cell with an empty physical line in second position (filter(None, ...)
\* drops it from the oracle payload only).
CellWithEmptyLine(n) == [i \in 1..n |-> IF i = 2 THEN "" ELSE LineText(i)]

CellLists ==
    {CellOfLen(n) : n \in 0..MaxLines} \cup {CellWithEmptyLine(MaxLines)}

\* check_multievent: isinstance(x, list) and len(x) > 4
IsMultiBroken(lines) == Len(lines) >= single_event_lines
IsMulti(lines) == Len(lines) > single_event_lines

(***************************************************************************)
(* Rows of the frame.  The slot (date, start_time, end_time) of row i is   *)
(* a function of i: one frame never holds the same slot twice.             *)
(***************************************************************************)
SlotDate(i) == <<2024, 10, 13 + i>>
SlotStart(i) == <<9, 15>>
SlotEnd(i) == <<10, 45>>

MkRow(i, lines) ==
    [date |-> SlotDate(i), start_time |-> SlotStart(i), end_time |-> SlotEnd(i),
     raw_details |-> lines, multi_event |-> IsMulti(lines)]

Frames ==
    UNION {{[i \in 1..n |-> MkRow(i, c[i])] : c \in [1..n -> CellLists]}
           : n \in 1..MaxDfRows}

(***************************************************************************)
(* The oracle.  An answer is an error of the request (an OpenAIError, or   *)
(* any other exception such as a response without content), an empty       *)
(* text, a text that is no JSON, or JSON: one object, a list, or another   *)
(* value.  A JSON object is a record holding some of the four keys; the    *)
(* items of one list are pairwise different.                               *)
(***************************************************************************)
RecA == [course |-> "Programmieren in C", lecturer |-> <<"P. Wette", "Simon">>,
         location |-> "D 216", details |-> "Praktikum 1, Gr. B"]
RecB == [course |-> "Wechselstromtechnik", lecturer |-> <<"Battermann">>,
         location |-> "D 221", details |-> "Praktikum 2, Gr. A"]
RecPartial == [course |-> "Wechselstromtechnik"]

DictItem(d) == [isdict |-> TRUE, val |-> d]
NonDictItem == [isdict |-> FALSE, val |-> [text |-> "Praktikum 2"]]

ListItems == {DictItem(RecA), DictItem(RecB), NonDictItem}

SeqsUpTo(S, n) == UNION {[1..k -> S] : k \in 0..n}

OracleAnswers ==
    {[kind |-> k, data |-> <<>>] :
        k \in {"api_error", "unexpected_error", "empty", "invalid_json", "other"}}
    \cup {[kind |-> "dict", data |-> <<DictItem(d)>>] : d \in {RecA, RecPartial}}
    \cup {[kind |-> "list", data |-> l] :
            l \in {q \in SeqsUpTo(ListItems, MaxRecords) :
                     \A i, j \in 1..Len(q) : q[i] = q[j] => i = j}}

failure_response_no_record == <<>>
failure_response ==
    <<DictItem([course |-> "!!! AiParsing Failure!!!", lecturer |-> <<>>,
                location |-> "", details |-> ""])>>

\* dict.get(key, default)
Get(d, key, default) == IF key \in DOMAIN d THEN d[key] ELSE default

(***************************************************************************)
(* openai_parser.                                                          *)
(***************************************************************************)
\* the except clauses: JSONDecodeError, openai.error.OpenAIError, Exception
CaughtNoCatchAll(kind) == kind \in {"invalid_json", "api_error"}
Caught(kind) == kind \in {"invalid_json", "api_error", "unexpected_error"}

\* an answer after which the loop goes on to its next iteration
FailingButEmpty(kind) == kind \in {"invalid_json", "api_error", "unexpected_error"}
Failing(kind) == kind \in {"invalid_json", "api_error", "unexpected_error", "empty"}

\* `continue` on an empty answer skips the backoff
BacksOff(kind) == kind \in {"invalid_json", "api_error", "unexpected_error"}

\* for attempt in range(1, max_retries + 1): the next value of the loop variable
NextAttemptStuck(a) == a
NextAttempt(a) == a + 1

\* what the call returns on an answer that ends it
ReturnedDropOther(ans) ==
    CASE ans.kind = "dict" -> ans.data
      [] ans.kind = "list" -> ans.data
      [] OTHER -> <<>>
Returned(ans) ==
    CASE ans.kind = "dict" -> ans.data
      [] ans.kind = "list" -> ans.data
      [] OTHER -> failure_response

(***************************************************************************)
(* process_data.                                                           *)
(***************************************************************************)
\* ", ".join(filter(None, raw_details)), as the sequence of its pieces
RECURSIVE Join(_)
Join(lines) ==
    IF lines = <<>> THEN <<>>
    ELSE IF Len(lines) = 1 THEN lines
    ELSE <<Head(lines), ", ">> \o Join(Tail(lines))

FilterNone(lines) == SelectSeq(lines, LAMBDA l : l # "")

\* the positional mapping of a single-event row
SingleEventShifted(row) ==
    LET rd == row.raw_details IN
    [date |-> row.date, start_time |-> row.start_time, end_time |-> row.end_time,
     course |-> IF Len(rd) > 0 THEN rd[1] ELSE "Unknown Course",
     lecturer |-> IF Len(rd) > 2 THEN <<rd[3]>> ELSE <<"Unknown Lecturer">>,
     location |-> IF Len(rd) > 1 THEN rd[2] ELSE "Unknown Location",
     details |-> IF Len(rd) > 3 THEN rd[4] ELSE ""]
SingleEvent(row) ==
    LET rd == row.raw_details IN
    [date |-> row.date, start_time |-> row.start_time, end_time |-> row.end_time,
     course |-> IF Len(rd) > 0 THEN rd[1] ELSE "Unknown Course",
     lecturer |-> IF Len(rd) > 1 THEN <<rd[2]>> ELSE <<"Unknown Lecturer">>,
     location |-> IF Len(rd) > 2 THEN rd[3] ELSE "Unknown Location",
     details |-> IF Len(rd) > 3 THEN rd[4] ELSE ""]

\* one record of the oracle mapped onto the row's slot
ParsedEvent(row, d) ==
    [date |-> row.date, start_time |-> row.start_time, end_time |-> row.end_time,
     course |-> Get(d, "course", "Unknown Course"),
     lecturer |-> Get(d, "lecturer", <<"Unknown Lecturer">>),
     location |-> Get(d, "location", "Unknown Location"),
     details |-> Get(d, "details", "")]

\* for event in parsed_events: if isinstance(event, dict): append
MapEventsFirstOnly(row, items) ==
    IF items # <<>> /\ Head(items).isdict
    THEN <<ParsedEvent(row, Head(items).val)>> ELSE <<>>
RECURSIVE MapEvents(_, _)
MapEvents(row, items) ==
    IF items = <<>> THEN <<>>
    ELSE (IF Head(items).isdict THEN <<ParsedEvent(row, Head(items).val)>> ELSE <<>>)
         \o MapEvents(row, Tail(items))

InitEvents ==
    /\ pc = "iter"
    /\ df \in Frames
    /\ idx = 1
    /\ details_string = <<>>
    /\ attempt = 0
    /\ requests = 0
    /\ responses = <<>>
    /\ slept = <<>>
    /\ parsed_events = <<>>
    /\ processed_events = <<>>
    /\ stage = "idle"
    /\ raw_tables = <<>>
    /\ frame = <<>>
    /\ columns = <<>>
    /\ year = -1
    /\ MainIdle
    /\ CalendarIdle

\* the else branch of process_data: a row that is not multi_event
ProcessSingle ==
    /\ pc = "iter"
    /\ idx <= Len(df)
    /\ ~df[idx].multi_event
    /\ processed_events' = Append(processed_events, SingleEvent(df[idx]))
    /\ idx' = idx + 1
    /\ details_string' = <<>>
    /\ attempt' = 0
    /\ requests' = 0
    /\ responses' = <<>>
    /\ slept' = <<>>
    /\ parsed_events' = <<>>
    /\ UNCHANGED <<pc, df>>
    /\ UNCHANGED <<ppVars, mfVars, calVars>>

\* a multi_event row: join the lines and enter openai_parser
StartMulti ==
    /\ pc = "iter"
    /\ idx <= Len(df)
    /\ df[idx].multi_event
    /\ details_string' = Join(FilterNone(df[idx].raw_details))
    /\ attempt' = 1
    /\ requests' = 0
    /\ responses' = <<>>
    /\ slept' = <<>>
    /\ parsed_events' = <<>>
    /\ pc' = "request"
    /\ UNCHANGED <<df, idx, processed_events>>
    /\ UNCHANGED <<ppVars, mfVars, calVars>>

\* one iteration of the retry loop of openai_parser: the request, the
\* oracle's answer and what the loop body does with it
OracleAttempt ==
    /\ pc = "request"
    /\ attempt <= max_retries
    /\ \E ans \in OracleAnswers :
        /\ requests' = requests + 1
        /\ responses' = Append(responses, ans.kind)
        /\ IF Failing(ans.kind) /\ ans.kind # "empty" /\ ~Caught(ans.kind)
           THEN \* the exception leaves openai_parser and process_data
                /\ pc' = "raised"
                /\ UNCHANGED <<attempt, slept, parsed_events>>
           ELSE IF Failing(ans.kind)
           THEN /\ slept' = IF BacksOff(ans.kind)
                            THEN Append(slept, Pow2(attempt)) ELSE slept
                /\ attempt' = NextAttempt(attempt)
                /\ IF NextAttempt(attempt) > max_retries
                   THEN /\ parsed_events' = failure_response
                        /\ pc' = "map"
                   ELSE UNCHANGED <<parsed_events, pc>>
           ELSE /\ parsed_events' = Returned(ans)
                /\ pc' = "map"
                /\ UNCHANGED <<attempt, slept>>
    /\ UNCHANGED <<df, idx, details_string, processed_events>>
    /\ UNCHANGED <<ppVars, mfVars, calVars>>

\* back in process_data: every dict of the returned list becomes an Event
MapParsed ==
    /\ pc = "map"
    /\ processed_events' = processed_events \o MapEvents(df[idx], parsed_events)
    /\ idx' = idx + 1
    /\ pc' = "iter"
    /\ UNCHANGED <<df, details_string, attempt, requests, responses, slept,
                   parsed_events>>
    /\ UNCHANGED <<ppVars, mfVars, calVars>>

\* the loop over the rows is over: processed_df is built and returned
Finish ==
    /\ pc = "iter"
    /\ idx > Len(df)
    /\ pc' = "done"
    /\ UNCHANGED <<df, idx, details_string, attempt, requests, responses, slept,
                   parsed_events, processed_events>>
    /\ UNCHANGED <<ppVars, mfVars, calVars>>

NextEvents == ProcessSingle \/ StartMulti \/ OracleAttempt \/ MapParsed \/ Finish

SpecEvents == InitEvents /\ [][NextEvents]_vars

(***************************************************************************)
(* Properties of process_data and openai_parser (SpecEvents).              *)
(***************************************************************************)
\* the Events of the output that carry the slot of row i
EventsOfRow(i) ==
    SelectSeq(processed_events,
              LAMBDA e : /\ e.date = df[i].date
                         /\ e.start_time = df[i].start_time
                         /\ e.end_time = df[i].end_time)

\* row i has been consumed by the loop of process_data
Consumed(i) == i < idx

\* the row consumed last, while the record of its oracle call is still held
LastRow == idx - 1
AtRowEnd == pc \in {"iter", "done"} /\ idx > 1

AllAttemptsFailed ==
    /\ Len(responses) = 3
    /\ \A k \in 1..3 :
         responses[k] \in {"api_error", "unexpected_error", "empty", "invalid_json"}

SentinelEvent(i) ==
    [date |-> df[i].date, start_time |-> df[i].start_time,
     end_time |-> df[i].end_time, course |-> "!!! AiParsing Failure!!!",
     lecturer |-> <<>>, location |-> "", details |-> ""]

\* C1: when all 3 oracle attempts of a multi-event slot fail (exception,
\* empty answer or undecodable JSON), process_data emits exactly one Event
\* for the slot: the sentinel, carrying the slot's date, start and end time.
C1_SentinelOnExhaustion ==
    (AtRowEnd /\ df[LastRow].multi_event /\ AllAttemptsFailed)
        => EventsOfRow(LastRow) = <<SentinelEvent(LastRow)>>

C1_Witness ==
    /\ AtRowEnd
    /\ df[LastRow].multi_event
    /\ responses = <<"api_error", "empty", "invalid_json">>
    /\ EventsOfRow(LastRow) = <<SentinelEvent(LastRow)>>

\* C2: whatever the oracle answers, openai_parser issues at most 3 requests
\* for one slot, has returned once the third answer is handled, and no
\* exception leaves it.
C2_BoundedAttempts ==
    /\ requests <= 3
    /\ (requests = 3 => pc # "request")
    /\ pc # "raised"
    /\ (pc = "request" => attempt = requests + 1)

C2_Witness ==
    /\ pc = "map"
    /\ requests = 3
    /\ responses = <<"unexpected_error", "invalid_json", "empty">>
    /\ parsed_events = failure_response

\* C3: every row consumed by process_data has at least one Event in the
\* output carrying its date, start_time and end_time.
C3_EveryRowYieldsAnEvent ==
    \A i \in 1..Len(df) : Consumed(i) => Len(EventsOfRow(i)) >= 1

\* C5: a non-multi row of n <= 4 lines yields exactly one Event, the
\* positional mapping of its lines with the placeholders "Unknown Course",
\* ["Unknown Lecturer"], "Unknown Location", "" at the positions i >= n; a
\* row of exactly 4 lines yields the mapping without any placeholder.
C5_Expected(i) ==
    LET rd == df[i].raw_details
        n == Len(rd) IN
    [date |-> df[i].date, start_time |-> df[i].start_time,
     end_time |-> df[i].end_time,
     course |-> IF n >= 1 THEN rd[1] ELSE "Unknown Course",
     lecturer |-> IF n >= 2 THEN <<rd[2]>> ELSE <<"Unknown Lecturer">>,
     location |-> IF n >= 3 THEN rd[3] ELSE "Unknown Location",
     details |-> IF n >= 4 THEN rd[4] ELSE ""]

C5_PositionalMapping ==
    \A i \in 1..Len(df) :
        (Consumed(i) /\ ~df[i].multi_event /\ Len(df[i].raw_details) <= 4)
            => /\ EventsOfRow(i) = <<C5_Expected(i)>>
               /\ (df[i].raw_details = <<"Algorithms", "Dr. X", "A101", "Lecture">>
                     => /\ EventsOfRow(i)[1].course = "Algorithms"
                        /\ EventsOfRow(i)[1].lecturer = <<"Dr. X">>
                        /\ EventsOfRow(i)[1].location = "A101"
                        /\ EventsOfRow(i)[1].details = "Lecture")

C5_Witness ==
    /\ pc = "done"
    /\ Len(df) = 2
    /\ df[1].raw_details = <<"Algorithms", "Dr. X", "A101", "Lecture">>
    /\ df[2].raw_details = <<"Algorithms", "Dr. X">>
    /\ EventsOfRow(1)[1].details = "Lecture"
    /\ EventsOfRow(2)[1].location = "Unknown Location"
    /\ Len(processed_events) = 2

\* C6: multi_event is true exactly for a line list of more than 4 elements,
\* and the oracle is called for a row if and only if the row has more than
\* 4 lines: such a row is never mapped positionally, a row of at most 4
\* lines never causes a request.
C6_OracleIffMoreThanFourLines ==
    /\ \A i \in 1..Len(df) : df[i].multi_event = (Len(df[i].raw_details) >= 5)
    /\ (pc \in {"request", "map"} => Len(df[idx].raw_details) >= 5)
    /\ (AtRowEnd => ((requests >= 1) = (Len(df[LastRow].raw_details) >= 5)))

C6_Witness ==
    /\ pc = "done"
    /\ Len(df) = 2
    /\ Len(df[1].raw_details) = 5
    /\ Len(df[2].raw_details) = 4
    /\ requests = 0
    /\ Len(processed_events) >= 2

\* the call of openai_parser for the current slot has returned
CallReturned == pc = "map" \/ (AtRowEnd /\ requests >= 1)

\* the kinds of answer that are a transport or service error
IsTransportError(kind) == kind = "api_error"

\* the waits a sequence of answers asks for: 2^k after the k-th answer when
\* that answer is an error or undecodable JSON
RECURSIVE WaitsFor(_, _)
WaitsFor(kinds, k) ==
    IF k > Len(kinds) THEN <<>>
    ELSE (IF kinds[k] \in {"api_error", "unexpected_error", "invalid_json"}
          THEN <<CASE k = 1 -> 2 [] k = 2 -> 4 [] OTHER -> 8>>
          ELSE <<>>) \o WaitsFor(kinds, k + 1)

\* C14 as stated: the waits of 2 s, 4 s, 8 s lie between attempts, so that
\* every wait for a transport/service error is followed by another attempt,
\* and at most 3 attempts are made: a call never returns straight after
\* such a wait.
C14_WaitsLieBetweenAttempts ==
    /\ requests <= 3
    /\ slept = WaitsFor(responses, 1)
    /\ CallReturned => ~IsTransportError(responses[Len(responses)])

\* C14, amended: an attempt of openai_parser that raises a transport or
\* service error is followed by a wait of 2^k seconds, k the number of the
\* attempt (2 s, 4 s, 8 s); after attempts 1 and 2 another attempt follows
\* the wait, after attempt 3 the wait of 8 s is followed by the return of
\* the sentinel; at most 3 attempts are made for one slot.
C14_ExponentialBackoff ==
    /\ requests <= 3
    /\ slept = WaitsFor(responses, 1)
    /\ \A k \in 1..Len(responses) :
          IsTransportError(responses[k]) =>
              /\ k <= 3
              /\ (k < 3 /\ Len(responses) = k) => (pc = "request" /\ attempt = k + 1)
              /\ (k = 3 /\ CallReturned) => parsed_events = failure_response
    /\ (\A k \in 1..Len(responses) : IsTransportError(responses[k]))
          => \A k \in 1..Len(slept) : slept[k] = (CASE k = 1 -> 2 [] k = 2 -> 4 [] OTHER -> 8)

C14_Witness ==
    /\ pc = "map"
    /\ responses = <<"api_error", "api_error", "api_error">>
    /\ slept = <<2, 4, 8>>
    /\ requests = 3
    /\ parsed_events = failure_response

\* C15: an empty answer or an answer that is no JSON does not end the call
\* of openai_parser: when it is the answer of attempt 1 or 2 another attempt
\* follows, and when a later attempt answers with a JSON object or list the
\* call returns those records, not the sentinel.
C15_InvalidOutputIsRetried ==
    /\ \A k \in 1..Len(responses) :
          (responses[k] \in {"empty", "invalid_json"} /\ k < 3 /\ Len(responses) = k)
              => (pc = "request" /\ attempt = k + 1)
    /\ (CallReturned /\ responses[Len(responses)] = "dict") =>
          /\ Len(parsed_events) = 1
          /\ parsed_events[1] \in {DictItem(RecA), DictItem(RecPartial)}
    /\ (CallReturned /\ responses[Len(responses)] = "list") =>
          /\ parsed_events \in SeqsUpTo(ListItems, MaxRecords)
          /\ parsed_events # failure_response

C15_Witness ==
    /\ pc = "map"
    /\ responses = <<"empty", "invalid_json", "list">>
    /\ parsed_events = <<DictItem(RecA), DictItem(RecB)>>

\* C16: an answer that is JSON but neither a list nor an object makes
\* openai_parser return the one-record sentinel at once: no request follows
\* it, however many attempts are left; a single JSON object is returned as a
\* list of one element.
C16_OtherJsonEndsCall ==
    \A k \in 1..Len(responses) :
        /\ responses[k] = "other" =>
              /\ Len(responses) = k
              /\ pc # "request"
              /\ parsed_events = failure_response
        /\ responses[k] = "dict" =>
              /\ Len(responses) = k
              /\ pc # "request"
              /\ Len(parsed_events) = 1
              /\ parsed_events[1].isdict

C16_Witness ==
    /\ pc = "map"
    /\ responses = <<"other">>
    /\ requests = 1
    /\ attempt = 1
    /\ parsed_events = failure_response

\* the Event of record d in the slot of row i
RecordEvent(i, d) ==
    [date |-> df[i].date, start_time |-> df[i].start_time,
     end_time |-> df[i].end_time, course |-> d.course, lecturer |-> d.lecturer,
     location |-> d.location, details |-> d.details]

\* C17: when the oracle call of a multi-event row succeeds with a list of k
\* records (JSON objects with the four keys), process_data emits exactly k
\* Events for the row, one per record in the order of the list, each with
\* the row's date, start_time and end_time and the record's course,
\* lecturer, location and details.
C17_OneEventPerRecord ==
    (AtRowEnd /\ requests >= 1 /\ responses[Len(responses)] = "list"
     /\ \A j \in 1..Len(parsed_events) : parsed_events[j].isdict)
        => EventsOfRow(LastRow)
             = [j \in 1..Len(parsed_events) |-> RecordEvent(LastRow, parsed_events[j].val)]

C17_Witness ==
    /\ AtRowEnd
    /\ responses = <<"list">>
    /\ parsed_events = <<DictItem(RecB), DictItem(RecA)>>
    /\ Len(EventsOfRow(LastRow)) = 2
    /\ EventsOfRow(LastRow)[1].course = "Wechselstromtechnik"
    /\ EventsOfRow(LastRow)[2].location = "D 216"

(***************************************************************************)
(* PdfParser.parse_pdf: values of the cells.                               *)
(*                                                                         *)
(* A value of the date column is a missing value (NaN, NaT), a text        *)
(* "<d>. <m>" held as its two tokens (the empty string has none), or a     *)
(* calendar date.  A time-slot label is the sequence of its tokens.  A     *)
(* cell text is the sequence of its physical lines: the empty string is    *)
(* the one empty line.  A time of day is <<hour, minute>>, NaT is <<>>.    *)
(***************************************************************************)
DNaN == [kind |-> "nan", d |-> "", m |-> "", y |-> 0, mo |-> 0, dd |-> 0]
DNaT == [kind |-> "nat", d |-> "", m |-> "", y |-> 0, mo |-> 0, dd |-> 0]
DText(d, m) == [kind |-> "text", d |-> d, m |-> m, y |-> 0, mo |-> 0, dd |-> 0]
DDate(y, mo, dd) == [kind |-> "date", d |-> "", m |-> "", y |-> y, mo |-> mo, dd |-> dd]
DBlank == DText("", "")

\* Series.isna
IsNa(v) == v.kind \in {"nan", "nat"}

NaT == <<>>
EmptyText == <<"">>

\* camelot yields strings only: a blank cell is the empty string
DateCells == {DBlank, DText("14", "Okt"), DText("3", "Mär"), DText("XX", "Foo")}

\* the text of the time-slot cell in data row r, when a class is scheduled
CellText(r) == IF r = 1 THEN CellOfLen(5) ELSE <<"Algorithms", " Dr. X ">>

\* the two times of the j-th time-slot column
T1(j) == CASE j = 1 -> "09.15" [] j = 2 -> "11.00" [] j = 3 -> "13.15"
           [] OTHER -> "15.00"
T2(j) == CASE j = 1 -> "10.45" [] j = 2 -> "12.30" [] j = 3 -> "14.45"
           [] OTHER -> "16.30"

\* tokens that hold a character clean_special_chars replaces
FigureDashSep == " <U+2010> "   \* " - " written with the figure dash
NbspUhr == "<U+00A0>Uhr"       \* " Uhr" written with a non-breaking space

LabelKinds == {"range", "single", "figdash", "badstart", "reversed"}
Label(kind, j) ==
    CASE kind = "range" -> <<T1(j), " - ", T2(j), " Uhr">>
      [] kind = "single" -> <<T1(j), " Uhr">>
      [] kind = "figdash" -> <<T1(j), FigureDashSep, T2(j), NbspUhr>>
      [] kind = "reversed" -> <<T2(j), " - ", T1(j), " Uhr">>
      [] OTHER -> <<"n.V.", " - ", T2(j), " Uhr">>

(***************************************************************************)
(* A raw table: the header row and the data rows.  Its first column (the   *)
(* weekday) is the one convert_tablelist_to_dataframe drops, its second    *)
(* column holds the dates, the others are the time slots.  The labels of   *)
(* one header are pairwise different.                                      *)
(***************************************************************************)
\* the table of one page: nr data rows with the date cells dc and a class
\* scheduled where occ says so, nc time-slot columns with labels of the
\* kinds k
MkTable(nr, nc, dc, occ, k) ==
    [header |-> [lead |-> "Tag", date |-> "Datum",
                 slots |-> [j \in 1..nc |-> Label(k[j], j)]],
     rows |-> [r \in 1..nr |->
                [lead |-> "Mo", date |-> dc[r],
                 cells |-> [c \in 1..nc |->
                              IF occ[r][c] THEN CellText(r) ELSE EmptyText]]]]

\* the tables extract_tables yields for that grid: one table, or, when the
\* grid breaks after its first data row, the tables of two pages, the second
\* repeating the header row
Paginate(table, broken) ==
    IF ~broken THEN <<table>>
    ELSE <<[table EXCEPT !.rows = SubSeq(@, 1, 1)],
           [table EXCEPT !.rows = SubSeq(@, 2, Len(@))]>>

(***************************************************************************)
(* Grid normalizer.                                                        *)
(***************************************************************************)
RECURSIVE ConcatRowsKeepHeaders(_, _)
ConcatRowsKeepHeaders(tables, i) ==
    IF i > Len(tables) THEN <<>>
    ELSE (IF i = 1 THEN <<>>
          ELSE <<[lead |-> tables[i].header.lead,
                  date |-> DText(tables[i].header.date, ""),
                  cells |-> tables[i].header.slots]>>)
         \o tables[i].rows \o ConcatRowsKeepHeaders(tables, i + 1)

RECURSIVE ConcatRows(_, _)
\* pd.concat of table.df (first table) and table.df.iloc[1:] (the others):
\* the header row of the first table stays as row 0 and is then taken as the
\* column labels
ConcatRows(tables, i) ==
    IF i > Len(tables) THEN <<>> ELSE tables[i].rows \o ConcatRows(tables, i + 1)

\* convert_tablelist_to_dataframe: the wide frame.  The first column is
\* dropped and the column that is then first is renamed to "date".
convert_tablelist_to_dataframe(tables) ==
    [columns |-> <<"date">> \o tables[1].header.slots,
     rows |-> [r \in 1..Len(ConcatRows(tables, 1)) |->
                 [date |-> ConcatRows(tables, 1)[r].date,
                  cells |-> ConcatRows(tables, 1)[r].cells]]]

\* DataFrame.empty
IsEmptyWide(wide) == Len(wide.rows) = 0 \/ Len(wide.columns) = 0

\* melt: one row per (time-slot column, data row), column after column; the
\* new index runs over the rows in that order
melt_df(wide) ==
    LET nr == Len(wide.rows)
        nc == Len(wide.columns) - 1 IN
    [i \in 1..(nr * nc) |->
        LET c == ((i - 1) \div nr) + 1
            r == ((i - 1) % nr) + 1 IN
        [index |-> i - 1,
         origin |-> <<r, c>>,
         date |-> wide.rows[r].date,
         time_slot |-> wide.columns[c + 1],
         raw_details |-> wide.rows[r].cells[c],
         start_time |-> NaT, end_time |-> NaT, multi_event |-> FALSE]]

\* fillna(method="ffill") on the date column: a missing value (NaN) takes
\* the last value before it that is not missing; a string, the empty
\* string included, is no missing value
RECURSIVE FFill(_, _, _)
FFill(rows, i, last) ==
    IF i > Len(rows) THEN <<>>
    ELSE LET v == IF IsNa(rows[i].date) THEN last ELSE rows[i].date IN
         <<[rows[i] EXCEPT !.date = v]>> \o FFill(rows, i + 1, v)

forward_fill_dates(rows) == FFill(rows, 1, DNaN)

InitParse ==
    /\ stage = "extracted"
    \* what extract_tables hands on: the tables of the pages
    /\ \E nr \in 0..MaxRows, nc \in 1..MaxCols :
         /\ nr * nc <= MaxCells
         /\ \E dc \in [1..nr -> DateCells], occ \in [1..nr -> [1..nc -> BOOLEAN]],
            k \in [1..nc -> LabelKinds], broken \in BOOLEAN :
              /\ broken => nr >= 2
              /\ raw_tables = Paginate(MkTable(nr, nc, dc, occ, k), broken)
    /\ frame = <<>>
    /\ columns = <<>>
    /\ year = -1
    /\ pc = "idle"
    /\ df = <<>>
    /\ idx = 0
    /\ details_string = <<>>
    /\ attempt = 0
    /\ requests = 0
    /\ responses = <<>>
    /\ slept = <<>>
    /\ parsed_events = <<>>
    /\ processed_events = <<>>
    /\ MainIdle
    /\ CalendarIdle

\* parse_pdf up to forward_fill_dates: convert, the emptiness check, melt,
\* forward fill
GridNormalize ==
    /\ stage = "extracted"
    /\ LET wide == convert_tablelist_to_dataframe(raw_tables) IN
       IF IsEmptyWide(wide)
       THEN /\ stage' = "returned_none"
            /\ UNCHANGED <<frame, columns>>
       ELSE /\ frame' = forward_fill_dates(melt_df(wide))
            /\ columns' = <<"date", "time_slot", "raw_details">>
            /\ stage' = "filled"
    /\ UNCHANGED <<raw_tables, year>>
    /\ UNCHANGED <<evVars, mfVars, calVars>>

(***************************************************************************)
(* Cell cleaner.                                                           *)
(***************************************************************************)
\* df[df["raw_details"].notna() & (df["raw_details"] != "")]
FilterEmpty(rows) == SelectSeq(rows, LAMBDA row : row.raw_details # EmptyText)

\* x.replace("\xa0", " ") and x.replace(U+2010, "-") on one token
CleanToken(t) ==
    CASE t = FigureDashSep -> " - "
      [] t = NbspUhr -> " Uhr"
      [] OTHER -> t

\* clean_special_chars: applymap over every string cell of the frame
clean_special_chars(rows) ==
    [i \in 1..Len(rows) |->
        [rows[i] EXCEPT !.time_slot = [k \in 1..Len(@) |-> CleanToken(@[k])]]]

\* clean_time_slot: str.replace(" Uhr", "")
clean_time_slot(rows) ==
    [i \in 1..Len(rows) |->
        [rows[i] EXCEPT !.time_slot = SelectSeq(@, LAMBDA t : t # " Uhr")]]

\* position of the first " - " of a label, 0 when it has none
RECURSIVE FirstSep(_, _)
FirstSep(label, k) ==
    IF k > Len(label) THEN 0
    ELSE IF label[k] = " - " THEN k ELSE FirstSep(label, k + 1)

\* str.split(" - ", n=1): the parts of one label
SplitParts(label) ==
    IF FirstSep(label, 1) = 0 THEN <<label>>
    ELSE <<SubSeq(label, 1, FirstSep(label, 1) - 1),
           SubSeq(label, FirstSep(label, 1) + 1, Len(label))>>

\* strptime(text, "%H.%M") of one token
TimeOfText(t) ==
    CASE t = "09.15" -> <<9, 15>>
      [] t = "10.45" -> <<10, 45>>
      [] t = "11.00" -> <<11, 0>>
      [] t = "12.30" -> <<12, 30>>
      [] t = "13.15" -> <<13, 15>>
      [] t = "14.45" -> <<14, 45>>
      [] t = "15.00" -> <<15, 0>>
      [] t = "16.30" -> <<16, 30>>
      [] OTHER -> NaT

\* pd.to_datetime(part.str.strip(), format="%H.%M", errors="coerce").dt.time
ParseTimePart(part) == IF Len(part) = 1 THEN TimeOfText(part[1]) ELSE NaT

\* number of columns of str.split(..., expand=True) over the frame
SplitWidth(rows) ==
    IF rows = <<>> THEN 0
    ELSE IF \E i \in 1..Len(rows) : FirstSep(rows[i].time_slot, 1) # 0 THEN 2 ELSE 1

\* time_splits.columns = ["start_time_str", "end_time_str"] raises a
\* ValueError unless the split has two columns; the except clause logs it
\* and the frame stays as it was
SplitSucceeds(rows) == SplitWidth(rows) = 2

split_time_slot(rows) ==
    IF ~SplitSucceeds(rows) THEN rows
    ELSE [i \in 1..Len(rows) |->
            LET parts == SplitParts(rows[i].time_slot) IN
            [rows[i] EXCEPT
                !.start_time = ParseTimePart(parts[1]),
                !.end_time = IF Len(parts) = 2 THEN ParseTimePart(parts[2]) ELSE NaT,
                !.time_slot = <<>>]]

\* detail.strip() of one line
StripLine(l) == IF l = " Dr. X " THEN "Dr. X" ELSE l

\* convert_raw_event_data_to_list: str.split("\n"), each line stripped
convert_raw_event_data_to_list(rows) ==
    [i \in 1..Len(rows) |->
        [rows[i] EXCEPT !.raw_details = [k \in 1..Len(@) |-> StripLine(@[k])]]]

\* parse_pdf from the filter of the empty cells to the line lists
CellClean ==
    /\ stage = "filled"
    /\ LET cleaned == clean_time_slot(clean_special_chars(FilterEmpty(frame))) IN
       /\ frame' = convert_raw_event_data_to_list(split_time_slot(cleaned))
       /\ columns' = IF SplitSucceeds(cleaned)
                     THEN <<"date", "raw_details", "start_time", "end_time">>
                     ELSE columns
    /\ stage' = "cleaned"
    /\ UNCHANGED <<raw_tables, year>>
    /\ UNCHANGED <<evVars, mfVars, calVars>>

(***************************************************************************)
(* Dates.                                                                  *)
(***************************************************************************)
\* get_year: the year of the version stamp, 0 for None (no stamp, or no
\* 20xx year in it); -1 in `year` says get_year has not been called yet
Years == {0, 2024, 2026}

\* Series.replace(month_mapping, regex=True) on the month token
MapMonthIdentity(m) == m
MapMonth(m) ==
    CASE m = "Mär" -> "Mar"
      [] m = "Mai" -> "May"
      [] m = "Okt" -> "Oct"
      [] m = "Dez" -> "Dec"
      [] OTHER -> m

\* %b of strptime
MonthNumber(e) ==
    CASE e = "Jan" -> 1 [] e = "Feb" -> 2 [] e = "Mar" -> 3 [] e = "Apr" -> 4
      [] e = "May" -> 5 [] e = "Jun" -> 6 [] e = "Jul" -> 7 [] e = "Aug" -> 8
      [] e = "Sep" -> 9 [] e = "Oct" -> 10 [] e = "Nov" -> 11 [] e = "Dec" -> 12
      [] OTHER -> 0

\* %d of strptime
DayNumber(d) ==
    CASE d = "3" -> 3 [] d = "14" -> 14 [] d = "15" -> 15 [] d = "29" -> 29
      [] d = "31" -> 31
      [] OTHER -> 0

IsLeap(y) == (y % 4 = 0 /\ y % 100 # 0) \/ y % 400 = 0
DaysInMonth(mo, y) ==
    IF mo = 2 THEN (IF IsLeap(y) THEN 29 ELSE 28)
    ELSE IF mo \in {4, 6, 9, 11} THEN 30 ELSE 31

\* pd.to_datetime(date + " <year>", format="%d. %b %Y", errors="coerce")
\* of one value, after the month replacement
FormatDateValue(v, y) ==
    LET mo == MonthNumber(MapMonth(v.m))
        dd == DayNumber(v.d) IN
    IF v.kind = "text" /\ mo # 0 /\ dd >= 1 /\ dd <= DaysInMonth(mo, y)
    THEN DDate(y, mo, dd)
    ELSE DNaT

format_date(rows, current_year) ==
    [i \in 1..Len(rows) |->
        [rows[i] EXCEPT !.date = FormatDateValue(@, current_year)]]

\* df[df["date"].dt.year.between(start_year, end_year)]
InYearRangeAlways(v, lo, hi) == TRUE
InYearRange(v, lo, hi) == v.kind = "date" /\ lo <= v.y /\ v.y <= hi

validate_dates_keep_all(rows, lo, hi) == rows
validate_dates(rows, lo, hi) ==
    SelectSeq(rows, LAMBDA row : InYearRange(row.date, lo, hi))

\* get_year, format_date and validate_dates, or neither when no year
DateStep ==
    /\ stage = "cleaned"
    /\ \E y \in Years :
        /\ year' = y
        /\ frame' = IF y # 0
                    THEN validate_dates(format_date(frame, y), start_year, end_year)
                    ELSE frame
    /\ stage' = "dated"
    /\ UNCHANGED <<raw_tables, columns>>
    /\ UNCHANGED <<evVars, mfVars, calVars>>

(***************************************************************************)
(* Sorting and the multi-event flag.                                       *)
(***************************************************************************)
\* the order of the strings of the date column (no year: they stay texts)
TextRank(v) ==
    CASE v = DBlank -> 0
      [] v.d = "14" -> 1
      [] v.d = "3" -> 2
      [] OTHER -> 3

\* sort key of a row: (date, start_time), a missing value after every other
RowKey(row) ==
    <<IF IsNa(row.date) THEN 1 ELSE 0,
      IF row.date.kind = "date"
        THEN row.date.y * 10000 + row.date.mo * 100 + row.date.dd
        ELSE TextRank(row.date),
      IF row.start_time = NaT THEN 1 ELSE 0,
      IF row.start_time = NaT THEN 0 ELSE row.start_time[1] * 60 + row.start_time[2]>>

RECURSIVE KeyLess(_, _, _)
KeyLess(a, b, k) ==
    IF k > Len(a) THEN FALSE
    ELSE IF a[k] # b[k] THEN a[k] < b[k] ELSE KeyLess(a, b, k + 1)

\* insertion behind every row that is not greater: the sort is stable
RECURSIVE InsertSorted(_, _)
InsertSorted(sorted, row) ==
    IF sorted = <<>> THEN <<row>>
    ELSE IF KeyLess(RowKey(row), RowKey(Head(sorted)), 1)
         THEN <<row>> \o sorted
         ELSE <<Head(sorted)>> \o InsertSorted(Tail(sorted), row)

RECURSIVE SortRows(_)
SortRows(rows) ==
    IF rows = <<>> THEN <<>>
    ELSE InsertSorted(SortRows(SubSeq(rows, 1, Len(rows) - 1)), rows[Len(rows)])

\* df.sort_values(by=["date", "start_time"]).reset_index(drop=True)
sort_values(rows) ==
    [i \in 1..Len(rows) |-> [SortRows(rows)[i] EXCEPT !.index = i - 1]]

\* check_multievent on the frame
check_multievent(rows) ==
    [i \in 1..Len(rows) |->
        [rows[i] EXCEPT !.multi_event = IsMulti(rows[i].raw_details)]]

HasColumn(cols, name) == \E k \in 1..Len(cols) : cols[k] = name

\* the end of parse_pdf: sort_values raises a KeyError when split_time_slot
\* left no start_time column; otherwise the frame is sorted, flagged, saved
\* and returned
SortAndFlag ==
    /\ stage = "dated"
    /\ IF ~HasColumn(columns, "start_time")
       THEN /\ stage' = "raised"
            /\ UNCHANGED <<frame, columns>>
       ELSE /\ frame' = check_multievent(sort_values(frame))
            /\ columns' = Append(columns, "multi_event")
            /\ stage' = "returned"
    /\ UNCHANGED <<raw_tables, year>>
    /\ UNCHANGED <<evVars, mfVars, calVars>>

NextParse == GridNormalize \/ CellClean \/ DateStep \/ SortAndFlag

SpecParse == InitParse /\ [][NextParse]_vars

(***************************************************************************)
(* Properties of parse_pdf, stated over SpecParse.                         *)
(***************************************************************************)
\* the data rows and time-slot columns of the raw table of the page
RawRows ==
    IF Len(raw_tables) = 1 THEN raw_tables[1].rows
    ELSE raw_tables[1].rows \o raw_tables[2].rows
RawSlots == raw_tables[1].header.slots

\* the grid cell in data row r, time-slot column c holds a text
Occupied(r, c) == RawRows[r].cells[c] # EmptyText

\* the rows of the frame that stem from the grid cell (r, c)
RowsOfCell(r, c) == {i \in 1..Len(frame) : frame[i].origin = <<r, c>>}

\* the date cells that read "D. <German month abbreviation>"
DateParses(v) == v \in {DText("14", "Okt"), DText("3", "Mär")}

\* the calendar date such a cell stands for in year y
CalendarDate(v, y) ==
    CASE v = DText("14", "Okt") -> DDate(y, 10, 14)
      [] v = DText("3", "Mär") -> DDate(y, 3, 3)
      [] OTHER -> DNaT

\* the nearest data row above r whose date cell is not blank, 0 if none
NearestDated(r) ==
    IF \E q \in 1..(r - 1) : RawRows[q].date # DBlank
    THEN CHOOSE q \in 1..(r - 1) :
            /\ RawRows[q].date # DBlank
            /\ \A p \in (q + 1)..(r - 1) : RawRows[p].date = DBlank
    ELSE 0

C7_BlankDateInheritsPreceding ==
    stage = "filled" =>
        \A i \in 1..Len(frame) :
            LET r == frame[i].origin[1] IN
            (RawRows[r].date = DBlank /\ NearestDated(r) # 0)
                => frame[i].date = RawRows[NearestDated(r)].date

\* C8 as stated: after forward_fill_dates no row of the frame has a blank
\* date, and as long as the frame has its time_slot column every label in it
\* is non-empty.
C8_NoBlankDateNonEmptyLabel ==
    /\ stage = "filled" =>
          \A i \in 1..Len(frame) :
              ~IsNa(frame[i].date) /\ frame[i].date # DBlank
    /\ (stage \in {"filled", "cleaned"} /\ HasColumn(columns, "time_slot")) =>
          \A i \in 1..Len(frame) : frame[i].time_slot # <<>>

\* C9 as stated: after clean_time_slot and split_time_slot, a row under a
\* label "HH.MM - HH.MM Uhr" has the two times as start_time and end_time,
\* and a row under a label "HH.MM Uhr" has that time as start_time and a
\* null end_time, whatever the other labels of the table are.
C9_LabelsSplitIntoTimes ==
    stage = "cleaned" =>
        \A i \in 1..Len(frame) :
            LET c == frame[i].origin[2] IN
            /\ RawSlots[c] = Label("range", c) =>
                  /\ HasColumn(columns, "start_time")
                  /\ HasColumn(columns, "end_time")
                  /\ frame[i].start_time = TimeOfText(T1(c))
                  /\ frame[i].end_time = TimeOfText(T2(c))
            /\ RawSlots[c] = Label("single", c) =>
                  /\ HasColumn(columns, "start_time")
                  /\ HasColumn(columns, "end_time")
                  /\ frame[i].start_time = TimeOfText(T1(c))
                  /\ frame[i].end_time = NaT

\* C10 as stated: with the year of the version stamp, every row of the
\* returned frame carries the calendar date of its date cell in that year,
\* a non-empty grid cell whose date cell does not parse has no row, and
\* every non-empty grid cell whose date cell parses has one.
C10_ParseableDatesRemain ==
    (stage = "returned" /\ year # 0) =>
        /\ \A i \in 1..Len(frame) :
              frame[i].date = CalendarDate(RawRows[frame[i].origin[1]].date, year)
        /\ \A r \in 1..Len(RawRows), c \in 1..Len(RawSlots) :
              Occupied(r, c) =>
                 IF DateParses(RawRows[r].date)
                 THEN RowsOfCell(r, c) # {}
                 ELSE RowsOfCell(r, c) = {}

\* C10, amended: with the year of the version stamp, every row that is left
\* after validate_dates, and so every row of a frame parse_pdf returns,
\* carries the calendar date of its "D. <month>" date cell in that year; a
\* non-empty grid cell whose date cell does not parse has no row; a
\* non-empty grid cell whose date cell parses has its row if the year lies
\* within start_year..end_year and has none if it does not.
C10_ParseableDatesRemainInRange ==
    (stage \in {"dated", "returned"} /\ year # 0) =>
        /\ \A i \in 1..Len(frame) :
              /\ DateParses(RawRows[frame[i].origin[1]].date)
              /\ frame[i].date = CalendarDate(RawRows[frame[i].origin[1]].date, year)
        /\ \A r \in 1..Len(RawRows), c \in 1..Len(RawSlots) :
              Occupied(r, c) =>
                 IF DateParses(RawRows[r].date)
                    /\ start_year <= year /\ year <= end_year
                 THEN Cardinality(RowsOfCell(r, c)) = 1
                 ELSE RowsOfCell(r, c) = {}

C10_Witness ==
    /\ stage = "returned"
    /\ year = 2024
    /\ \E i \in 1..Len(frame) : frame[i].date = DDate(2024, 10, 14)
    /\ \E r \in 1..Len(RawRows), c \in 1..Len(RawSlots) :
          /\ Occupied(r, c)
          /\ RawRows[r].date = DText("XX", "Foo")
          /\ RowsOfCell(r, c) = {}

\* minutes since midnight of a time of day
Minutes(t) == t[1] * 60 + t[2]

\* C11 as stated: in every row the cell cleaner produces, start_time is not
\* later than end_time when both are there, and a part of the label that is
\* no time gives a null field, never a time.
C11_StartNotAfterEnd ==
    (stage \in {"cleaned", "dated", "returned"}
     /\ HasColumn(columns, "start_time")) =>
        \A i \in 1..Len(frame) :
            /\ (frame[i].start_time # NaT /\ frame[i].end_time # NaT)
                  => Minutes(frame[i].start_time) <= Minutes(frame[i].end_time)
            /\ RawSlots[frame[i].origin[2]] = Label("badstart", frame[i].origin[2])
                  => frame[i].start_time = NaT

(***************************************************************************)
(* main_flow (src/main.py): the version store, the version gate of the     *)
(* downloaded files, the parse of the latest version of every timetable    *)
(* and the calendar update.  A version identifier is a number, in the      *)
(* order sorted() gives the identifiers; 0 stands for None.                *)
(***************************************************************************)
\* config["timetables"].keys(), in their order
TimetableKeys == <<"elm3", "elm5">>
KeySet == {TimetableKeys[i] : i \in 1..Len(TimetableKeys)}

Versions == 1..MaxVersions

LatestIsFirst(l) == l[1]

\* the greatest element of a non-empty sequence of numbers: sorted(l)[-1]
Latest(l) == CHOOSE v \in {l[i] : i \in 1..Len(l)} : \A j \in 1..Len(l) : l[j] <= v

\* the version directories of key k, in ascending order
RECURSIVE VersionDirs(_, _)
VersionDirs(dirs, v) ==
    IF v > MaxVersions THEN <<>>
    ELSE (IF dirs[v] # "none" THEN <<v>> ELSE <<>>) \o VersionDirs(dirs, v + 1)

\* get_existing_versions: one entry per key folder, the names of its
\* version directories; a key folder exists when a version directory was
\* ever made in it
ScanOf(st) ==
    [k \in {q \in KeySet : VersionDirs(st[q], 1) # <<>>} |-> VersionDirs(st[k], 1)]

\* existing_versions.get(timetable_key, [])
VersionsOf(ev, k) == IF k \in DOMAIN ev THEN ev[k] ELSE <<>>

InListNever(l, v) == FALSE
InList(l, v) == \E i \in 1..Len(l) : l[i] = v

\* existing_versions.setdefault(timetable_key, []).append(version)
AppendVersion(ev, k, v) ==
    [q \in (DOMAIN ev) \cup {k} |->
        IF q = k THEN Append(VersionsOf(ev, k), v) ELSE ev[q]]

InitMain ==
    /\ mpc = "scan"
    /\ run = 1
    \* a store as earlier runs left it: a version directory holds its PDF
    /\ store \in [KeySet -> [Versions -> {"none", "pdf"}]]
    /\ existing_versions = <<>>
    /\ temp = [k \in KeySet |-> 0]
    /\ key_i = 0
    /\ moved = {}
    /\ skipped = {}
    /\ left_in_temp = {}
    /\ parsed = {}
    /\ cause = ""
    /\ calendar_updated = FALSE
    /\ EventsIdle
    /\ ParseIdle
    /\ CalendarIdle

\* main_flow up to the download: get_existing_versions
GetExistingVersions ==
    /\ mpc = "scan"
    /\ existing_versions' = ScanOf(store)
    /\ mpc' = "download"
    /\ UNCHANGED <<run, store, temp, key_i, moved, skipped,
                   left_in_temp, parsed, cause,
                   calendar_updated>>
    /\ UNCHANGED <<evVars, ppVars, calVars>>

\* download_and_compare_timetables up to downloader.run(): some PDFs land
\* in the temporary directory of every key
DownloadTimetables ==
    /\ mpc = "download"
    /\ temp' \in [KeySet -> 0..MaxFiles]
    /\ key_i' = 1
    /\ mpc' = "process"
    /\ UNCHANGED <<run, store, existing_versions, moved, skipped,
                   left_in_temp, parsed, cause,
                   calendar_updated>>
    /\ UNCHANGED <<evVars, ppVars, calVars>>

CurrentKey == TimetableKeys[key_i]

\* one file of the current key is dealt with: the loop goes on with the next
\* file, the call returns after the last one
FileDone ==
    /\ temp' = [temp EXCEPT ![CurrentKey] = @ - 1]
    /\ key_i' = IF temp[CurrentKey] = 1 THEN key_i + 1 ELSE key_i

\* process_downloaded_files: no PDF in the directory of the key
NoPdfFound ==
    /\ mpc = "process"
    /\ key_i <= Len(TimetableKeys)
    /\ temp[CurrentKey] = 0
    /\ key_i' = key_i + 1
    /\ UNCHANGED <<mpc, run, store, existing_versions, temp, moved, skipped,
                   left_in_temp,
                   parsed, cause, calendar_updated>>
    /\ UNCHANGED <<evVars, ppVars, calVars>>

\* process_downloaded_files: extract_version_from_pdf finds no version stamp
SkipNoVersion ==
    /\ mpc = "process"
    /\ key_i <= Len(TimetableKeys)
    /\ temp[CurrentKey] > 0
    /\ left_in_temp' = left_in_temp \cup {<<CurrentKey, 0>>}
    /\ FileDone
    /\ UNCHANGED <<mpc, run, store, existing_versions, moved, skipped, parsed,
                   cause, calendar_updated>>
    /\ UNCHANGED <<evVars, ppVars, calVars>>

\* process_downloaded_files: a version that is not in the list of the key;
\* the directory is made and the file moved into it
MoveNewVersion ==
    /\ mpc = "process"
    /\ key_i <= Len(TimetableKeys)
    /\ temp[CurrentKey] > 0
    /\ \E v \in Versions :
        /\ ~InList(VersionsOf(existing_versions, CurrentKey), v)
        /\ store' = [store EXCEPT ![CurrentKey][v] = "pdf"]
        /\ existing_versions' = AppendVersion(existing_versions, CurrentKey, v)
        /\ moved' = moved \cup {<<CurrentKey, v>>}
    /\ FileDone
    /\ UNCHANGED <<mpc, run, skipped,
                   left_in_temp, parsed, cause, calendar_updated>>
    /\ UNCHANGED <<evVars, ppVars, calVars>>

\* the same, but shutil.move raises: the directory has been made, the
\* exception leaves process_downloaded_files and ends main_flow
MoveFails ==
    /\ mpc = "process"
    /\ key_i <= Len(TimetableKeys)
    /\ temp[CurrentKey] > 0
    /\ \E v \in Versions :
        /\ ~InList(VersionsOf(existing_versions, CurrentKey), v)
        /\ store' = [store EXCEPT ![CurrentKey][v] =
                        IF @ = "none" THEN "empty" ELSE @]
    /\ mpc' = "aborted"
    /\ cause' = "move"
    /\ UNCHANGED <<run, existing_versions, temp, key_i, moved, skipped,
                   left_in_temp, parsed,
                   calendar_updated>>
    /\ UNCHANGED <<evVars, ppVars, calVars>>

\* process_downloaded_files: a version that is in the list of the key
SkipSeenVersion ==
    /\ mpc = "process"
    /\ key_i <= Len(TimetableKeys)
    /\ temp[CurrentKey] > 0
    /\ \E v \in Versions :
        /\ InList(VersionsOf(existing_versions, CurrentKey), v)
        /\ skipped' = IF <<CurrentKey, v>> \in moved THEN skipped
                      ELSE skipped \cup {<<CurrentKey, v>>}
        /\ left_in_temp' = left_in_temp \cup {<<CurrentKey, v>>}
    /\ FileDone
    /\ UNCHANGED <<mpc, run, store, existing_versions, moved, parsed, cause,
                   calendar_updated>>
    /\ UNCHANGED <<evVars, ppVars, calVars>>

\* download_and_compare_timetables: the temporary directory is removed
Cleanup ==
    /\ mpc = "process"
    /\ key_i > Len(TimetableKeys)
    /\ temp' = [k \in KeySet |-> 0]
    /\ left_in_temp' = {}
    /\ key_i' = 1
    /\ mpc' = "parse"
    /\ UNCHANGED <<run, store, existing_versions, moved, skipped, parsed, cause,
                   calendar_updated>>
    /\ UNCHANGED <<evVars, ppVars, calVars>>

\* main_flow: sorted(existing_versions[timetable_key])[-1] raises a KeyError
\* for a key without an entry; the exception ends main_flow
NoVersionForKey ==
    /\ mpc = "parse"
    /\ key_i <= Len(TimetableKeys)
    /\ CurrentKey \notin DOMAIN existing_versions
    /\ mpc' = "aborted"
    /\ cause' = "no_version"
    /\ UNCHANGED <<run, store, existing_versions, temp, key_i, moved, skipped,
                   left_in_temp,
                   parsed, calendar_updated>>
    /\ UNCHANGED <<evVars, ppVars, calVars>>

\* main_flow: the latest version directory of the key holds no PDF
NoPdfInLatest ==
    /\ mpc = "parse"
    /\ key_i <= Len(TimetableKeys)
    /\ CurrentKey \in DOMAIN existing_versions
    /\ store[CurrentKey][Latest(existing_versions[CurrentKey])] # "pdf"
    /\ key_i' = key_i + 1
    /\ UNCHANGED <<mpc, run, store, existing_versions, temp, moved, skipped,
                   left_in_temp,
                   parsed, cause, calendar_updated>>
    /\ UNCHANGED <<evVars, ppVars, calVars>>

\* main_flow: parse_and_save_pdf on the PDF of the latest version; parse_pdf
\* returns a frame or None
ParseLatest ==
    /\ mpc = "parse"
    /\ key_i <= Len(TimetableKeys)
    /\ CurrentKey \in DOMAIN existing_versions
    /\ store[CurrentKey][Latest(existing_versions[CurrentKey])] = "pdf"
    /\ \E outcome \in {"events", "none"} :
        parsed' = parsed \cup
            {<<CurrentKey, Latest(existing_versions[CurrentKey]), outcome>>}
    /\ key_i' = key_i + 1
    /\ UNCHANGED <<mpc, run, store, existing_versions, temp, moved, skipped,
                   left_in_temp,
                   cause, calendar_updated>>
    /\ UNCHANGED <<evVars, ppVars, calVars>>

\* the same, but parse_pdf raises (its sort_values does when the frame has
\* no start_time column): the exception ends main_flow
ParseRaises ==
    /\ mpc = "parse"
    /\ key_i <= Len(TimetableKeys)
    /\ CurrentKey \in DOMAIN existing_versions
    /\ store[CurrentKey][Latest(existing_versions[CurrentKey])] = "pdf"
    /\ parsed' = parsed \cup
            {<<CurrentKey, Latest(existing_versions[CurrentKey]), "raised">>}
    /\ mpc' = "aborted"
    /\ cause' = "parse"
    /\ UNCHANGED <<run, store, existing_versions, temp, key_i, moved, skipped,
                   left_in_temp,
                   calendar_updated>>
    /\ UNCHANGED <<evVars, ppVars, calVars>>

\* main_flow: update_google_calendar, which returns or raises
UpdateGoogleCalendar ==
    /\ mpc = "parse"
    /\ key_i > Len(TimetableKeys)
    /\ calendar_updated' = TRUE
    /\ \E ok \in BOOLEAN :
        /\ mpc' = IF ok THEN "done" ELSE "aborted"
        /\ cause' = IF ok THEN cause ELSE "calendar"
    /\ UNCHANGED <<run, store, existing_versions, temp, key_i, moved, skipped,
                   left_in_temp,
                   parsed>>
    /\ UNCHANGED <<evVars, ppVars, calVars>>

\* the program is started again: only the store is carried over
NextRun ==
    /\ mpc \in {"done", "aborted"}
    /\ run < MaxRuns
    /\ run' = run + 1
    /\ mpc' = "scan"
    /\ existing_versions' = <<>>
    /\ temp' = [k \in KeySet |-> 0]
    /\ key_i' = 0
    /\ moved' = {}
    /\ skipped' = {}
    /\ left_in_temp' = {}
    /\ parsed' = {}
    /\ cause' = ""
    /\ calendar_updated' = FALSE
    /\ UNCHANGED store
    /\ UNCHANGED <<evVars, ppVars, calVars>>

NextMain ==
    \/ GetExistingVersions \/ DownloadTimetables \/ NoPdfFound \/ SkipNoVersion
    \/ MoveNewVersion \/ MoveFails \/ SkipSeenVersion \/ Cleanup
    \/ NoVersionForKey \/ NoPdfInLatest \/ ParseLatest \/ ParseRaises
    \/ UpdateGoogleCalendar \/ NextRun

SpecMain == InitMain /\ [][NextMain]_vars

(***************************************************************************)
(* Properties of main_flow, stated over SpecMain.                          *)
(***************************************************************************)
\* the run of main_flow has ended
RunEnded == mpc \in {"done", "aborted"}

\* the keys whose latest version directory holds a PDF to parse
Parseable(k) ==
    /\ k \in DOMAIN existing_versions
    /\ store[k][Latest(existing_versions[k])] = "pdf"

\* parse_and_save_pdf was called for key k in this run
ParseCalled(k) == \E v \in Versions, o \in {"events", "none", "raised"} : <<k, v, o>> \in parsed

\* C12 as stated: a downloaded file whose version was seen before the run is
\* skipped, and the run does not parse that version again.
C12_SeenVersionNotReparsed ==
    \A kv \in skipped :
        /\ kv \notin moved
        /\ \A o \in {"events", "none", "raised"} : <<kv[1], kv[2], o>> \notin parsed

\* C13 as stated: a document without a version stamp is not turned into
\* events: parse_pdf, which gets no year for it, returns no frame of rows.
C13_NoStampNoEvents ==
    (stage = "returned" /\ year = 0) => frame = <<>>

\* C19 as stated: a key without any version, or a key whose PDF fails to
\* parse, does not keep main_flow from parsing the other keys and from
\* updating the calendar: unless a file move or the calendar update itself
\* failed, a run that has ended has called the parser for every key with a
\* stored PDF and has called update_google_calendar.
C19_KeysAreIndependent ==
    (RunEnded /\ cause \notin {"move", "calendar"}) =>
        /\ calendar_updated
        /\ \A k \in KeySet : Parseable(k) => ParseCalled(k)

\* C20 as stated: every version get_existing_versions reports as seen has
\* its PDF in its version directory, also in a run that follows a failed
\* move or an aborted run.
C20_SeenVersionsAreStored ==
    \A k \in DOMAIN existing_versions :
        \A i \in 1..Len(existing_versions[k]) :
            store[k][existing_versions[k][i]] = "pdf"

(***************************************************************************)
(* The calendar update (src/src/libs/update_google_calendar.py):           *)
(* delete_all_events over the events the calendar holds, then              *)
(* create_all_events over the local events; in a dry run only the latter.  *)
(***************************************************************************)
\* a local event is one prepare_event_data can prepare or one it cannot
EventKinds == {"ok", "unpreparable"}

InitCalendar ==
    /\ dry_run \in BOOLEAN
    /\ local_events \in SeqsUpTo(EventKinds, MaxEvents)
    /\ \E n \in 0..MaxRemote : remote_events = [i \in 1..n |-> i]
    /\ cpc = "start"
    /\ event_i = 1
    /\ attempted = {}
    /\ created_events = <<>>
    /\ remote_calls = <<>>
    /\ EventsIdle
    /\ ParseIdle
    /\ MainIdle

\* GoogleCalendarAPI.__init__: authenticate unless dry_run
AuthCalls(dry) == IF dry THEN <<>> ELSE <<"auth">>

\* GoogleCalendarAPI.fetch_events: no request in a dry run
FetchCalls(dry) == IF dry THEN <<>> ELSE <<"fetch">>

\* the calls of one create_event on a prepared event: the insert unless
\* dry_run
InsertCallsAlways(dry) == <<"insert">>
InsertCalls(dry) == IF dry THEN <<>> ELSE <<"insert">>

\* update_google_calendar: the API object is made, the local events are
\* read from their JSON file; then create_all_events in a dry run, else
\* delete_all_events, which begins by fetching the remote events
LoadLocalEvents ==
    /\ cpc = "start"
    /\ cpc' = IF dry_run THEN "create" ELSE "delete"
    /\ remote_calls' = remote_calls \o AuthCalls(dry_run)
                         \o FetchCalls(dry_run)
    /\ UNCHANGED <<dry_run, local_events, remote_events, event_i, attempted,
                   created_events>>
    /\ UNCHANGED <<evVars, ppVars, mfVars>>

LoadFailsAfterDelete ==
    /\ cpc = "start"
    /\ cpc' = "returned"
    /\ remote_calls' = remote_calls \o AuthCalls(dry_run) \o FetchCalls(dry_run)
                         \o [i \in 1..Len(remote_events) |->
                               IF dry_run THEN "fetch" ELSE "delete"]
    /\ UNCHANGED <<dry_run, local_events, remote_events, event_i, attempted,
                   created_events>>
    /\ UNCHANGED <<evVars, ppVars, mfVars>>

\* the same, but json.load raises JSONDecodeError: the error is logged and
\* update_google_calendar returns
LoadFails ==
    /\ cpc = "start"
    /\ cpc' = "returned"
    /\ remote_calls' = remote_calls \o AuthCalls(dry_run)
    /\ UNCHANGED <<dry_run, local_events, remote_events, event_i, attempted,
                   created_events>>
    /\ UNCHANGED <<evVars, ppVars, mfVars>>

\* delete_all_events: delete_event on one remote event, the call succeeds
DeleteEvent ==
    /\ cpc = "delete"
    /\ event_i <= Len(remote_events)
    /\ attempted' = attempted \cup {<<"delete", event_i>>}
    /\ remote_calls' = Append(remote_calls, "delete")
    /\ event_i' = event_i + 1
    /\ UNCHANGED <<cpc, dry_run, local_events, remote_events, created_events>>
    /\ UNCHANGED <<evVars, ppVars, mfVars>>

\* the same, but the remote delete raises: nothing catches it
DeleteRaises ==
    /\ cpc = "delete"
    /\ event_i <= Len(remote_events)
    /\ attempted' = attempted \cup {<<"delete", event_i>>}
    /\ remote_calls' = Append(remote_calls, "delete")
    /\ cpc' = "raised"
    /\ UNCHANGED <<dry_run, local_events, remote_events, event_i, created_events>>
    /\ UNCHANGED <<evVars, ppVars, mfVars>>

\* delete_all_events returns, create_all_events begins
DeleteDone ==
    /\ cpc = "delete"
    /\ event_i > Len(remote_events)
    /\ cpc' = "create"
    /\ event_i' = 1
    /\ UNCHANGED <<dry_run, local_events, remote_events, attempted,
                   created_events, remote_calls>>
    /\ UNCHANGED <<evVars, ppVars, mfVars>>

\* create_all_events: create_event on an event that can be prepared; the
\* prepared data (dry run) or the inserted event is appended
CreateEvent ==
    /\ cpc = "create"
    /\ event_i <= Len(local_events)
    /\ local_events[event_i] = "ok"
    /\ attempted' = attempted \cup {<<"create", event_i>>}
    /\ remote_calls' = remote_calls \o InsertCalls(dry_run)
    /\ created_events' = Append(created_events, event_i)
    /\ event_i' = event_i + 1
    /\ UNCHANGED <<cpc, dry_run, local_events, remote_events>>
    /\ UNCHANGED <<evVars, ppVars, mfVars>>

\* the same, but the remote insert raises: nothing catches it
CreateRaises ==
    /\ cpc = "create"
    /\ event_i <= Len(local_events)
    /\ local_events[event_i] = "ok"
    /\ ~dry_run
    /\ attempted' = attempted \cup {<<"create", event_i>>}
    /\ remote_calls' = Append(remote_calls, "insert")
    /\ cpc' = "raised"
    /\ UNCHANGED <<dry_run, local_events, remote_events, event_i, created_events>>
    /\ UNCHANGED <<evVars, ppVars, mfVars>>

\* create_event on an event prepare_event_data returns None for: the error
\* is logged and the loop goes on
CreateUnprepared ==
    /\ cpc = "create"
    /\ event_i <= Len(local_events)
    /\ local_events[event_i] = "unpreparable"
    /\ attempted' = attempted \cup {<<"create", event_i>>}
    /\ event_i' = event_i + 1
    /\ UNCHANGED <<cpc, dry_run, local_events, remote_events, created_events,
                   remote_calls>>
    /\ UNCHANGED <<evVars, ppVars, mfVars>>

CreateDoneThenDelete ==
    /\ cpc = "create"
    /\ event_i > Len(local_events)
    /\ cpc' = IF dry_run \/ remote_events = <<>> THEN "done" ELSE "delete"
    /\ event_i' = 1
    /\ UNCHANGED <<dry_run, local_events, remote_events, attempted,
                   created_events, remote_calls>>
    /\ UNCHANGED <<evVars, ppVars, mfVars>>

\* create_all_events returns
CreateDone ==
    /\ cpc = "create"
    /\ event_i > Len(local_events)
    /\ cpc' = "done"
    /\ UNCHANGED <<dry_run, local_events, remote_events, event_i, attempted,
                   created_events, remote_calls>>
    /\ UNCHANGED <<evVars, ppVars, mfVars>>

NextCalendar ==
    \/ LoadLocalEvents \/ LoadFails
    \/ DeleteEvent \/ DeleteRaises \/ DeleteDone
    \/ CreateEvent \/ CreateRaises \/ CreateUnprepared \/ CreateDone

SpecCalendar == InitCalendar /\ [][NextCalendar]_vars

\* C18 as stated: a failure while writing one event (an event that cannot
\* be prepared, or a remote insert or delete that raises) is confined to
\* that event: once delete_all_events has begun it attempts every remote
\* event, and once create_all_events has begun it attempts every local event.
C18_FailureConfinedToEvent ==
    (cpc \in {"done", "raised"}) =>
        /\ (\E i \in 1..Len(remote_events) : <<"delete", i>> \in attempted)
              => \A i \in 1..Len(remote_events) : <<"delete", i>> \in attempted
        /\ (\E i \in 1..Len(local_events) : <<"create", i>> \in attempted)
              => \A i \in 1..Len(local_events) : <<"create", i>> \in attempted

\* the positions of the remote calls of one kind in the log
CallsOf(kind) == {i \in 1..Len(remote_calls) : remote_calls[i] = kind}

\* C21: a synchronisation that is not a dry run deletes, then recreates:
\* every deletion of a fetched remote event comes before the first creation,
\* every fetched event has had its deletion by then, and no creation is
\* ever followed by a deletion.
C21_DeleteThenRecreate ==
    ~dry_run =>
        /\ \A i \in CallsOf("insert") : \A j \in CallsOf("delete") : j < i
        /\ (CallsOf("insert") # {}) =>
              \A i \in 1..Len(remote_events) : <<"delete", i>> \in attempted

C21_Witness ==
    /\ cpc = "done"
    /\ ~dry_run
    /\ Cardinality(CallsOf("delete")) = MaxRemote
    /\ Cardinality(CallsOf("insert")) >= 2

\* C26: when the local events file cannot be decoded, update_google_calendar
\* returns having deleted and created nothing remotely.
C26_DecodeFailureTouchesNothing ==
    (cpc = "returned") =>
        /\ CallsOf("delete") = {}
        /\ CallsOf("insert") = {}
        /\ attempted = {}
        /\ created_events = <<>>

C26_Witness ==
    /\ cpc = "returned"
    /\ ~dry_run
    /\ remote_events # <<>>
    /\ \E i \in 1..Len(local_events) : local_events[i] = "ok"

\* the positions of the local events that prepare_event_data can prepare,
\* in input order
Preparable ==
    SelectSeq([i \in 1..Len(local_events) |-> i],
              LAMBDA i : local_events[i] = "ok")

\* C27: in a dry run no call reaches the calendar service at any step (no
\* authentication, fetch, delete or insert), and create_all_events returns
\* exactly the prepared payloads of the preparable local events, in input
\* order.
C27_DryRunIsLocal ==
    dry_run =>
        /\ remote_calls = <<>>
        /\ (cpc = "done") => created_events = Preparable

C27_Witness ==
    /\ dry_run
    /\ cpc = "done"
    /\ Len(created_events) >= 2
    /\ \E i \in 1..Len(local_events) : local_events[i] = "unpreparable"

(***************************************************************************)
(* PdfParser.parse_pdf: further properties.                                *)
(***************************************************************************)
\* the header label of time-slot column c names no range of two times
FaultyLabel(c) ==
    RawSlots[c] \notin {Label("range", c), Label("figdash", c), Label("reversed", c)}

\* the date cell of data row r is neither blank nor a day and a month
FaultyDate(r) == RawRows[r].date # DBlank /\ ~DateParses(RawRows[r].date)

\* C22 as stated: a data-shape error in one row (a time-slot label that
\* cannot be parsed, a date that cannot be parsed) never aborts the
\* document: whenever a non-empty cell has such a label or date, parse_pdf
\* still returns instead of raising.
C22_ShapeErrorNeverAborts ==
    (\E r \in 1..Len(RawRows), c \in 1..Len(RawSlots) :
        Occupied(r, c) /\ (FaultyLabel(c) \/ FaultyDate(r)))
      => stage # "raised"

\* C23 as stated: when the flattened grid of a document is empty, the grid
\* normalizer fails with an error, an outcome distinct from returning
\* nothing.
C23_EmptyGridRaises ==
    (stage # "extracted" /\ IsEmptyWide(convert_tablelist_to_dataframe(raw_tables)))
      => stage = "raised"

C30_ReturnedDatesInRange ==
    (stage = "returned" /\ year # 0) =>
        /\ \A i \in 1..Len(frame) :
              /\ frame[i].date.kind = "date"
              /\ frame[i].date.y = year
              /\ start_year <= frame[i].date.y
              /\ frame[i].date.y <= end_year
        /\ (year < start_year \/ year > end_year) => frame = <<>>

C30_Witness ==
    /\ stage = "returned"
    /\ year = 2024
    /\ Len(frame) = 1
    /\ \E r \in 1..Len(RawRows), c \in 1..Len(RawSlots) :
          Occupied(r, c) /\ FaultyDate(r)
    /\ \E r \in 1..Len(RawRows), c \in 1..Len(RawSlots) :
          Occupied(r, c) /\ RawRows[r].date = DBlank

(***************************************************************************)
(* Cell cleaner on the text of a label, character by character.            *)
(***************************************************************************)
Nbsp == "<U+00A0>"         \* the non-breaking space
FigureDash == "<U+2010>"   \* the hyphen-like character

RECURSIVE StrReplaceFirst(_, _, _)
StrReplaceFirst(text, old, new) ==
    IF Len(text) < Len(old) THEN text
    ELSE IF SubSeq(text, 1, Len(old)) = old
         THEN new \o SubSeq(text, Len(old) + 1, Len(text))
         ELSE <<Head(text)>> \o StrReplaceFirst(Tail(text), old, new)

RECURSIVE StrReplace(_, _, _)
\* str.replace(old, new): every occurrence of old, found from left to right
\* without overlap, becomes new; the result is not scanned again
StrReplace(text, old, new) ==
    IF Len(text) < Len(old) THEN text
    ELSE IF SubSeq(text, 1, Len(old)) = old
         THEN new \o StrReplace(SubSeq(text, Len(old) + 1, Len(text)), old, new)
         ELSE <<Head(text)>> \o StrReplace(Tail(text), old, new)

\* clean_special_chars on one string cell: the two replacements, in the
\* order of the dict
CleanSpecialText(text) ==
    StrReplace(StrReplace(text, <<Nbsp>>, <<" ">>), <<FigureDash>>, <<"-">>)

\* clean_time_slot on one label: str.replace(" Uhr", "", regex=False)
CleanTimeSlotText(text) == StrReplace(text, <<" ", "U", "h", "r">>, <<>>)

\* the pieces the labels are put together from
PieceKinds == {"uhr", "nbsp_uhr", "sp_u", "hr", "u", "sp", "time", "dash"}
Piece(kind) ==
    CASE kind = "uhr" -> <<" ", "U", "h", "r">>
      [] kind = "nbsp_uhr" -> <<Nbsp, "U", "h", "r">>
      [] kind = "sp_u" -> <<" ", "U">>
      [] kind = "hr" -> <<"h", "r">>
      [] kind = "u" -> <<"U">>
      [] kind = "sp" -> <<" ">>
      [] kind = "time" -> <<"9", ".", "1", "5">>
      [] OTHER -> <<" ", FigureDash, " ">>

RECURSIVE Flatten(_)
Flatten(pieces) ==
    IF pieces = <<>> THEN <<>> ELSE Piece(Head(pieces)) \o Flatten(Tail(pieces))

\* a grid of one data row and one time-slot column with the given label
TableOfLabel(text) ==
    [header |-> [lead |-> "Tag", date |-> "Datum", slots |-> <<text>>],
     rows |-> <<[lead |-> "Mo", date |-> DText("14", "Okt"),
                 cells |-> <<CellText(2)>>]>>]

\* the frame as it reaches the cell cleaner
InitClean ==
    /\ \E pieces \in SeqsUpTo(PieceKinds, MaxPieces) :
          raw_tables = <<TableOfLabel(Flatten(pieces))>>
    /\ frame = FilterEmpty(forward_fill_dates(melt_df(
                   convert_tablelist_to_dataframe(raw_tables))))
    /\ columns = <<"date", "time_slot", "raw_details">>
    /\ stage = "filled"
    /\ year = -1
    /\ EventsIdle
    /\ MainIdle
    /\ CalendarIdle

\* clean_special_chars, then clean_time_slot, on the labels of the frame;
\* applied to the frame as extracted and once more to its own result
CleanLabels ==
    /\ stage \in {"filled", "cleaned"}
    /\ frame' = [i \in 1..Len(frame) |->
                   [frame[i] EXCEPT !.time_slot =
                       CleanTimeSlotText(CleanSpecialText(@))]]
    /\ stage' = IF stage = "filled" THEN "cleaned" ELSE "recleaned"
    /\ UNCHANGED <<raw_tables, columns, year>>
    /\ UNCHANGED <<evVars, mfVars, calVars>>

NextClean == CleanLabels

SpecClean == InitClean /\ [][NextClean]_vars

\* the label as extracted
InputLabel == raw_tables[1].header.slots[1]

\* the text a single application of the two cleaners makes of the label
CleanedOnce == CleanTimeSlotText(CleanSpecialText(InputLabel))

\* no " Uhr" of the text, written with either kind of space, is directly
\* followed by one of the letters U, h, r
NoUhrBeforeLetter(text) ==
    \A i \in 1..(Len(text) - 4) :
        (SubSeq(CleanSpecialText(text), i, i + 3) = <<" ", "U", "h", "r">>)
            => text[i + 4] \notin {"U", "h", "r"}

\* C25 as stated: for every string, a second application of
\* clean_special_chars and clean_time_slot to their own output returns that
\* output unchanged.
C25_CleanerIdempotent ==
    (stage = "recleaned") => frame[1].time_slot = CleanedOnce

\* C25, amended: for every string in which no " Uhr" (written with a space
\* or a non-breaking space) is directly followed by one of the letters U, h,
\* r, a second application of clean_special_chars and clean_time_slot to
\* their own output returns that output unchanged.
C25_CleanerIdempotentOnLabels ==
    (stage = "recleaned" /\ NoUhrBeforeLetter(InputLabel))
        => frame[1].time_slot = CleanedOnce

C25_Witness ==
    /\ stage = "recleaned"
    /\ InputLabel = Piece("time") \o Piece("nbsp_uhr") \o Piece("uhr")
    /\ NoUhrBeforeLetter(InputLabel)
    /\ frame[1].time_slot = Piece("time")

(***************************************************************************)
(* main_flow: further properties.                                          *)
(***************************************************************************)
\* how often version v stands in the list of key k
Occurrences(k, v) ==
    Cardinality({i \in 1..Len(VersionsOf(existing_versions, k)) :
                    VersionsOf(existing_versions, k)[i] = v})

\* C28: the list of seen versions of a key never holds a version twice; when
\* a file carries a version that was moved earlier in the run, it is left in
\* the temp directory, and that version stands in the list once, with the
\* PDF of the first file in its directory.
C28_NoVersionTwice ==
    /\ \A k \in KeySet, v \in Versions : Occurrences(k, v) <= 1
    /\ \A kv \in moved \cap left_in_temp :
          /\ Occurrences(kv[1], kv[2]) = 1
          /\ store[kv[1]][kv[2]] = "pdf"

C28_Witness ==
    /\ mpc = "process"
    /\ <<"elm3", 1>> \in moved \cap left_in_temp
    /\ VersionsOf(existing_versions, "elm3") = <<2, 1>>

\* the PDFs parse_and_save_pdf was called on for key k in this run
ParsedOf(k) == {t \in parsed : t[1] = k}

\* C29: in one run main_flow parses at most one PDF for each key, and the
\* PDF it parses lies in the directory of the greatest version of the key's
\* list, the versions added in this run included; no PDF of a smaller
\* version is parsed.
C29_OnlyLatestParsed ==
    \A k \in KeySet :
        /\ Cardinality(ParsedOf(k)) <= 1
        /\ \A t \in ParsedOf(k) :
              /\ InList(VersionsOf(existing_versions, k), t[2])
              /\ \A i \in 1..Len(VersionsOf(existing_versions, k)) :
                    VersionsOf(existing_versions, k)[i] <= t[2]

C29_Witness ==
    /\ <<"elm5", 2, "events">> \in parsed
    /\ <<"elm5", 2>> \in moved
    /\ store["elm5"][1] = "pdf"
    /\ VersionsOf(existing_versions, "elm5") = <<1, 2>>

====
